---- MODULE Spec2Model ----
(***************************************************************************)
(* Model of the CBUAE exchange-rate scraper (scripts/cbuae_extractor.py)   *)
(* and of the ChromeDriver installer (scripts/install_chrome.py).          *)
(*                                                                         *)
(* Text is modelled as a sequence of one-character strings, so that        *)
(* str.lower, str.replace, the `in` substring test and float() are         *)
(* computed character by character, as the interpreter computes them.      *)
(***************************************************************************)
EXTENDS Integers, Sequences, FiniteSets, TLC

VARIABLES
    \* ---- is_valid_rate exercised on its own
    text,               \* the argument handed to is_valid_rate
    rate_result,        \* "none" before the call, then "True" / "False"
    \* ---- extract_exchange_rates
    target_currencies,  \* the caller-supplied list of fragments
    epc,                \* position inside extract_exchange_rates
    driver,             \* "none" | "live" | "quit"
    quit_calls,         \* number of driver.quit() calls made
    row_i,              \* number of rows of the table consumed so far
    row,                \* cells of the row being processed, <<>> between rows
    currency_found,     \* local of the loop body, as the last row left it
    rate_found,         \* local of the loop body, as the last row left it
    dropped,            \* history: currencies matched by a row without a rate
    found_currencies,   \* ordered dict: sequence of [currency, rate]
    extracted_data,     \* return value: [ret: "pending"|"None"|"dict", data]
    \* ---- main / save_* / commit_and_push
    mpc,                \* position inside main
    csv_saved, json_saved, historical_saved, metadata_saved,
    writes,             \* the save_* calls made so far, in order
    git_cmds,           \* the git subcommands run so far, in order
    git_out,            \* what each git command returned, in order
    git_success,        \* return value of commit_and_push
    csv_file,           \* data/latest_rates.csv: [written, records]
    json_file,          \* data/latest_rates.json: [written, records]
    io_errors,          \* history: the writes whose file operation raised
    \* ---- ChromeDriverInstaller.install
    ipc,                \* position inside install
    system,             \* platform.system().lower()
    method_i,           \* index into installation_methods
    method_ret,         \* what the current method returned / raised
    attempts,           \* per method: [name, ret, verified]
    calls,              \* commands, requests and error reports, in order
    install_ret,        \* return value of install
    machine,            \* platform.machine().lower()
    chrome_version,     \* local of get_compatible_chromedriver_version
    platform_id,        \* local of get_compatible_chromedriver_version
    manifest,           \* what the Chrome for Testing request answered
    resolved,           \* what get_compatible_chromedriver_version gave
    launched,           \* browser sessions verify_installation launched
    quits,              \* driver.quit() calls verify_installation made
    exit_code           \* return value of the installer's main

vars == <<text, rate_result,
          target_currencies, epc, driver, quit_calls, row_i, row,
          currency_found, rate_found, dropped,
          found_currencies, extracted_data,
          mpc, csv_saved, json_saved, historical_saved, metadata_saved,
          writes, git_cmds, git_out, git_success,
          csv_file, json_file, io_errors,
          ipc, system, method_i, method_ret, attempts, calls, install_ret,
          machine, chrome_version, platform_id, manifest, resolved,
          launched, quits, exit_code>>

rate_vars    == <<text, rate_result>>
extract_vars == <<target_currencies, epc, driver, quit_calls, row_i, row,
                  currency_found, rate_found, dropped,
                  found_currencies, extracted_data>>
row_vars     == <<row, currency_found, rate_found, dropped>>
file_vars    == <<csv_file, json_file, io_errors>>
main_vars    == <<mpc, csv_saved, json_saved, historical_saved,
                  metadata_saved, writes, git_cmds, git_out, git_success,
                  file_vars>>
platform_vars == <<system, machine>>
manual_vars   == <<chrome_version, platform_id, manifest, resolved>>
session_vars  == <<launched, quits>>
install_vars == <<ipc, method_i, method_ret, attempts, calls, install_ret,
                  platform_vars, manual_vars, session_vars, exit_code>>

-----------------------------------------------------------------------------
(* Bounds of the model *)

MaxLen  == 4    \* longest text handed to is_valid_rate on its own
MaxRows == 2    \* rows of the table that one extraction consumes
MaxCells == 3   \* cells of one table row
MaxManifest == 2    \* entries of the versions list of the manifest

-----------------------------------------------------------------------------
(* Characters and strings *)

UpperCase == <<"A","B","C","D","E","F","G","H","I","J","K","L","M",
               "N","O","P","Q","R","S","T","U","V","W","X","Y","Z">>
LowerCase == <<"a","b","c","d","e","f","g","h","i","j","k","l","m",
               "n","o","p","q","r","s","t","u","v","w","x","y","z">>
DigitChars == <<"0","1","2","3","4","5","6","7","8","9">>

IsDigit(c)  == \E k \in 1..10 : DigitChars[k] = c
DigitVal(c) == (CHOOSE k \in 1..10 : DigitChars[k] = c) - 1

\* the lower-case letter of every upper-case letter
LowerOf ==
    [c \in {UpperCase[k] : k \in 1..26} |->
        LowerCase[CHOOSE k \in 1..26 : UpperCase[k] = c]]

\* str.lower(), one character
LowerChar(c) == IF c \in DOMAIN LowerOf THEN LowerOf[c] ELSE c

\* str.lower()
Lower(s) == [k \in 1..Len(s) |-> LowerChar(s[k])]

\* `sub in s` (both operands are evaluated once)
Contains(s, sub) ==
    \E hay \in {s} : \E needle \in {sub} :
        \E k \in 0..(Len(hay) - Len(needle)) :
            \A j \in 1..Len(needle) : hay[k + j] = needle[j]

\* s.replace(c, '')
RemoveChar(s, c) == SelectSeq(s, LAMBDA x : x # c)

\* str.strip() / the whitespace float() ignores at both ends
RECURSIVE LStrip(_)
LStrip(s) == IF s # <<>> /\ Head(s) = " " THEN LStrip(Tail(s)) ELSE s
RECURSIVE RStrip(_)
RStrip(s) ==
    IF s # <<>> /\ s[Len(s)] = " " THEN RStrip(SubSeq(s, 1, Len(s) - 1)) ELSE s
Strip(s) == RStrip(LStrip(s))

RECURSIVE Pow10(_)
Pow10(n) == IF n = 0 THEN 1 ELSE 10 * Pow10(n - 1)

-----------------------------------------------------------------------------
(* float(): the grammar of Python's float constructor                       *)
(*   [sign] (inf | infinity | nan | decimal), surrounded by whitespace      *)
(*   decimal   ::= digitpart ["." [digitpart]] [exp] | "." digitpart [exp]  *)
(*   digitpart ::= digit (["_"] digit)*        exp ::= (e|E) [sign] digitpart *)
(* A number is kept exactly, as sign, mantissa and power of ten.            *)

IsSign(c) == c = "+" \/ c = "-"

IsDigitPart(s) ==
    /\ s # <<>>
    /\ IsDigit(s[1]) /\ IsDigit(s[Len(s)])
    /\ \A k \in 1..Len(s) : IsDigit(s[k]) \/ s[k] = "_"
    /\ \A k \in 1..(Len(s) - 1) : ~(s[k] = "_" /\ s[k + 1] = "_")

RECURSIVE DigitsVal(_)
DigitsVal(s) ==
    IF s = <<>> THEN 0
    ELSE IF s[Len(s)] = "_" THEN DigitsVal(SubSeq(s, 1, Len(s) - 1))
    ELSE 10 * DigitsVal(SubSeq(s, 1, Len(s) - 1)) + DigitVal(s[Len(s)])

NumDigits(s) == Len(RemoveChar(s, "_"))

\* index of the first character of s satisfying c = a or c = b, 0 if none
FirstOf(s, a, b) ==
    IF \E k \in 1..Len(s) : s[k] = a \/ s[k] = b
    THEN CHOOSE k \in 1..Len(s) :
            /\ (s[k] = a \/ s[k] = b)
            /\ \A j \in 1..(k - 1) : ~(s[j] = a \/ s[j] = b)
    ELSE 0

FloatErr == [kind |-> "err", neg |-> FALSE, mant |-> 0, exp |-> 0]

\* the exponent part after e/E: [sign] digitpart
ParseExp(x) ==
    LET signed == x # <<>> /\ IsSign(x[1])
        ds     == IF signed THEN Tail(x) ELSE x
    IN  IF ~IsDigitPart(ds) THEN [ok |-> FALSE, val |-> 0]
        ELSE [ok |-> TRUE,
              val |-> IF signed /\ x[1] = "-" THEN 0 - DigitsVal(ds)
                      ELSE DigitsVal(ds)]

\* the part before the exponent: digitpart ["." [digitpart]] | "." digitpart
ParseMantissa(m) ==
    LET dot == FirstOf(m, ".", ".")
        ip  == IF dot = 0 THEN m ELSE SubSeq(m, 1, dot - 1)
        fp  == IF dot = 0 THEN <<>> ELSE SubSeq(m, dot + 1, Len(m))
    IN  IF /\ (ip = <<>> \/ IsDigitPart(ip))
           /\ (fp = <<>> \/ IsDigitPart(fp))
           /\ ~(ip = <<>> /\ fp = <<>>)
        THEN [ok |-> TRUE,
              mant |-> DigitsVal(ip) * Pow10(NumDigits(fp)) + DigitsVal(fp),
              scale |-> NumDigits(fp)]
        ELSE [ok |-> FALSE, mant |-> 0, scale |-> 0]

pyfloat(s) ==
    LET t      == Strip(s)
        signed == t # <<>> /\ IsSign(t[1])
        neg    == signed /\ t[1] = "-"
        body   == IF signed THEN Tail(t) ELSE t
        low    == Lower(body)
        epos   == FirstOf(body, "e", "E")
        m      == IF epos = 0 THEN body ELSE SubSeq(body, 1, epos - 1)
        x      == IF epos = 0 THEN <<>> ELSE SubSeq(body, epos + 1, Len(body))
        pm     == ParseMantissa(m)
        px     == IF epos = 0 THEN [ok |-> TRUE, val |-> 0] ELSE ParseExp(x)
    IN  IF low = <<"i","n","f">> \/ low = <<"i","n","f","i","n","i","t","y">>
        THEN [kind |-> "inf", neg |-> neg, mant |-> 0, exp |-> 0]
        ELSE IF low = <<"n","a","n">>
        THEN [kind |-> "nan", neg |-> neg, mant |-> 0, exp |-> 0]
        ELSE IF pm.ok /\ px.ok
        THEN [kind |-> "num", neg |-> neg, mant |-> pm.mant,
              exp |-> px.val - pm.scale]
        ELSE FloatErr

\* 0.0000001 <= rate, for a parsed number
RateLow == 7        \* 0.0000001 = 10^-7
RateHigh == 2       \* 100.0     = 10^2
MantDigits == 9     \* mantissas of the model stay below 10^9

GeLow(f) ==
    /\ f.kind = "num" \/ f.kind = "inf"
    /\ ~f.neg
    /\ \/ f.kind = "inf"
       \/ /\ f.mant > 0
          /\ LET k == f.exp + RateLow
             IN  IF k >= 0 THEN TRUE
                 ELSE IF 0 - k > MantDigits THEN FALSE
                 ELSE f.mant >= Pow10(0 - k)

\* rate <= 100.0, for a parsed number
LeHigh(f) ==
    \/ f.kind = "inf" /\ f.neg
    \/ /\ f.kind = "num"
       /\ \/ f.neg
          \/ f.mant = 0
          \/ LET k == RateHigh - f.exp
             IN  IF k < 0 THEN FALSE
                 ELSE IF k > MantDigits THEN TRUE
                 ELSE f.mant <= Pow10(k)

\* is_valid_rate with the thousands separators left in place
is_valid_rate_keep_commas(t) ==
    LET clean_text == RemoveChar(t, " ")
        rate       == pyfloat(clean_text)
    IN  IF rate.kind = "err" THEN FALSE
        ELSE GeLow(rate) /\ LeHigh(rate)

\* is_valid_rate(text): a failing float() is caught and gives False
is_valid_rate(t) ==
    LET clean_text == RemoveChar(RemoveChar(t, " "), ",")
        rate       == pyfloat(clean_text)
    IN  IF rate.kind = "err" THEN FALSE
        ELSE GeLow(rate) /\ LeHigh(rate)

-----------------------------------------------------------------------------
(* is_valid_rate on its own: every text up to MaxLen over RateAlphabet *)

RateAlphabet == {"0", "1", "7", "8", ".", "e", "-", ",", " ", "a"}

Texts(n) == UNION {[1..k -> RateAlphabet] : k \in 0..n}

RateIdle == text = <<>> /\ rate_result = "none"

CallIsValidRate ==
    /\ rate_result = "none"
    /\ rate_result' = IF is_valid_rate(text) THEN "True" ELSE "False"
    /\ UNCHANGED <<text, extract_vars, main_vars, install_vars>>

-----------------------------------------------------------------------------
(* extract_exchange_rates *)

\* cell texts the page may show
T_EURO == <<"E","U","R","O">>
T_Yen  == <<"Y","e","n">>
T_36   == <<"3",".","6">>
T_0c5  == <<"0",",","5">>
T_367  == <<"3","6","7">>
CellTexts == {T_EURO, T_Yen, T_36, T_0c5, T_367}

\* target fragments a caller may pass
F_Euro == <<"E","u","r","o">>
F_Yen  == <<"Y","e","n">>
TargetLists == {<<F_Euro>>, <<F_Euro, F_Yen>>, <<F_Yen, F_Euro>>}

Rows == UNION {[1..n -> CellTexts] : n \in 1..MaxCells}

\* None and the empty text are both falsy and are told apart nowhere
None == <<>>

\* all_texts = [cell.text.strip() for cell in cells]
AllTexts(cells) == [k \in 1..Len(cells) |-> Strip(cells[k])]

\* `target.lower() in text.lower()` for some target
MatchesTarget(t, targets) ==
    \E n \in 1..Len(targets) : Contains(Lower(t), Lower(targets[n]))

\* the nested loops with the roles of the two loops exchanged: targets
\* outside, cells inside
CurrencyFoundTargetFirst(all_texts, targets) ==
    LET hit(n) == \E k \in 1..Len(all_texts) :
                     /\ all_texts[k] # <<>>
                     /\ Contains(Lower(all_texts[k]), Lower(targets[n]))
    IN  IF \E n \in 1..Len(targets) : hit(n)
        THEN LET n == CHOOSE n \in 1..Len(targets) :
                        hit(n) /\ \A j \in 1..(n - 1) : ~hit(j)
             IN  all_texts[CHOOSE k \in 1..Len(all_texts) :
                    /\ all_texts[k] # <<>>
                    /\ Contains(Lower(all_texts[k]), Lower(targets[n]))
                    /\ \A j \in 1..(k - 1) :
                        ~(/\ all_texts[j] # <<>>
                          /\ Contains(Lower(all_texts[j]), Lower(targets[n])))]
        ELSE None

\* the nested loops over all_texts (outer) and target_currencies (inner):
\* the first truthy text that contains some target, else None
CurrencyFound(all_texts, targets) ==
    IF \E k \in 1..Len(all_texts) :
            all_texts[k] # <<>> /\ MatchesTarget(all_texts[k], targets)
    THEN all_texts[CHOOSE k \in 1..Len(all_texts) :
            /\ all_texts[k] # <<>> /\ MatchesTarget(all_texts[k], targets)
            /\ \A j \in 1..(k - 1) :
                 ~(all_texts[j] # <<>> /\ MatchesTarget(all_texts[j], targets))]
    ELSE None

\* the first text of the row that float() accepts, whatever its value
RateFoundAnyNumber(all_texts) ==
    IF \E k \in 1..Len(all_texts) : pyfloat(all_texts[k]).kind = "num"
    THEN all_texts[CHOOSE k \in 1..Len(all_texts) :
            /\ pyfloat(all_texts[k]).kind = "num"
            /\ \A j \in 1..(k - 1) : pyfloat(all_texts[j]).kind # "num"]
    ELSE None

\* the first text of the row accepted by is_valid_rate, else None
RateFound(all_texts) ==
    IF \E k \in 1..Len(all_texts) : is_valid_rate(all_texts[k])
    THEN all_texts[CHOOSE k \in 1..Len(all_texts) :
            /\ is_valid_rate(all_texts[k])
            /\ \A j \in 1..(k - 1) : ~is_valid_rate(all_texts[j])]
    ELSE None

\* ordered dict
HasKey(d, key) == \E k \in 1..Len(d) : d[k].currency = key
Lookup(d, key) == d[CHOOSE k \in 1..Len(d) : d[k].currency = key].rate

\* d[key] = value keeps the first value recorded under the key
DictSetKeepFirst(d, key, value) ==
    IF HasKey(d, key) THEN d
    ELSE Append(d, [currency |-> key, rate |-> value])

\* d[key] = value
DictSet(d, key, value) ==
    IF HasKey(d, key)
    THEN [k \in 1..Len(d) |->
            IF d[k].currency = key THEN [currency |-> key, rate |-> value]
            ELSE d[k]]
    ELSE Append(d, [currency |-> key, rate |-> value])

\* the loop body recording a rate under the first cell of the row without
\* asking for a currency match
RowResultAnyRow(cells, targets, found, cf0, rf0) ==
    LET all_texts == AllTexts(cells)
        cf == all_texts[1]
        rf == RateFound(all_texts)
    IN  IF Len(cells) < 2
        THEN [currency_found |-> cf0, rate_found |-> rf0, found |-> found]
        ELSE [currency_found |-> cf, rate_found |-> rf,
              found |-> IF cf # None /\ rf # None
                        THEN DictSet(found, cf, rf) ELSE found]

\* The body of the loop over rows, for a row whose cells could be read.
\* cf0 and rf0 are the values the locals had before: a row of fewer than
\* two cells assigns nothing.  Gives the locals and the mapping afterwards.
RowResult(cells, targets, found, cf0, rf0) ==
    LET all_texts == AllTexts(cells)
        cf == CurrencyFound(all_texts, targets)
        rf == IF cf # None THEN RateFound(all_texts) ELSE None
    IN  IF Len(cells) < 2
        THEN [currency_found |-> cf0, rate_found |-> rf0, found |-> found]
        ELSE [currency_found |-> cf, rate_found |-> rf,
              found |-> IF cf # None /\ rf # None
                        THEN DictSet(found, cf, rf) ELSE found]

Pending == [ret |-> "pending", data |-> <<>>]
RetNone == [ret |-> "None", data |-> <<>>]
RetDict(d) == [ret |-> "dict", data |-> d]

ExtractIdle ==
    /\ epc = "idle" /\ driver = "none" /\ quit_calls = 0
    /\ row_i = 0 /\ row = <<>> /\ found_currencies = <<>>
    /\ currency_found = None /\ rate_found = None /\ dropped = {}
    /\ extracted_data = Pending

\* setup_chrome_driver returned a driver
SetupDriverOk ==
    /\ epc = "setup"
    /\ driver' = "live"
    /\ epc' = "get"
    /\ UNCHANGED <<rate_vars, target_currencies, quit_calls, row_i,
                   row_vars, found_currencies, extracted_data, main_vars,
                   install_vars>>

\* setup_chrome_driver returned None: `if not driver: return None`
SetupDriverNone ==
    /\ epc = "setup"
    /\ extracted_data' = RetNone
    /\ epc' = "done"
    /\ UNCHANGED <<rate_vars, target_currencies, driver, quit_calls, row_i,
                   row_vars, found_currencies, main_vars, install_vars>>

\* driver.get(url), then the disclaimer click whose failure is swallowed
PageLoaded ==
    /\ epc = "get"
    /\ epc' = "table"
    /\ UNCHANGED <<rate_vars, target_currencies, driver, quit_calls, row_i,
                   row_vars, found_currencies, extracted_data, main_vars,
                   install_vars>>

\* an exception that leaves the function through `return None` without
\* running the finally clause
RaiseToExceptNoFinally ==
    /\ epc \in {"get", "table"}
    /\ extracted_data' = RetNone
    /\ epc' = "done"
    /\ UNCHANGED <<rate_vars, target_currencies, driver, quit_calls, row_i,
                   row_vars, found_currencies, main_vars, install_vars>>

\* a KeyboardInterrupt or other BaseException inside the try block: no
\* except clause takes it, the finally clause runs and it propagates
Interrupt ==
    /\ epc \in {"get", "table", "rows"}
    /\ extracted_data' = [ret |-> "raised", data |-> <<>>]
    /\ epc' = "finally"
    /\ UNCHANGED <<rate_vars, target_currencies, driver, quit_calls, row_i,
                   row_vars, found_currencies, main_vars, install_vars>>

\* driver.get, wait.until(table) or find_elements raised: the outer
\* `except Exception` prints and returns None, the finally clause follows
RaiseToExcept ==
    /\ epc \in {"get", "table"}
    /\ extracted_data' = RetNone
    /\ epc' = "finally"
    /\ UNCHANGED <<rate_vars, target_currencies, driver, quit_calls, row_i,
                   row_vars, found_currencies, main_vars, install_vars>>

\* the table was located and its rows listed; found_currencies = {}
TableFound ==
    /\ epc = "table"
    /\ found_currencies' = <<>>
    /\ epc' = "rows"
    /\ UNCHANGED <<rate_vars, target_currencies, driver, quit_calls, row_i,
                   row_vars, extracted_data, main_vars, install_vars>>

\* cells = row.find_elements(...) of the next row
FetchRow ==
    /\ epc = "rows" /\ row_i < MaxRows
    /\ \E r \in Rows : row' = r
    /\ row_i' = row_i + 1
    /\ epc' = "row"
    /\ UNCHANGED <<rate_vars, target_currencies, driver, quit_calls,
                   currency_found, rate_found, dropped,
                   found_currencies, extracted_data, main_vars, install_vars>>

\* reading the next row raised: `except Exception: continue`
FetchRowRaises ==
    /\ epc = "rows" /\ row_i < MaxRows
    /\ row_i' = row_i + 1
    /\ UNCHANGED <<rate_vars, target_currencies, epc, driver, quit_calls,
                   row_vars, found_currencies, extracted_data, main_vars,
                   install_vars>>

\* the rest of the loop body
ProcessRow ==
    /\ epc = "row"
    /\ \E res \in {RowResult(row, target_currencies, found_currencies,
                            currency_found, rate_found)} :
           /\ found_currencies' = res.found
           /\ currency_found' = res.currency_found
           /\ rate_found' = res.rate_found
           /\ dropped' = IF /\ Len(row) >= 2
                            /\ res.currency_found # None
                            /\ res.rate_found = None
                         THEN dropped \cup {res.currency_found}
                         ELSE dropped
    /\ row' = <<>>
    /\ epc' = "rows"
    /\ UNCHANGED <<rate_vars, target_currencies, driver, quit_calls, row_i,
                   extracted_data, main_vars, install_vars>>

\* the loop is over: return found_currencies if found_currencies else None
ReturnFound ==
    /\ epc = "rows"
    /\ extracted_data' = IF found_currencies # <<>>
                         THEN RetDict(found_currencies) ELSE RetNone
    /\ epc' = "finally"
    /\ UNCHANGED <<rate_vars, target_currencies, driver, quit_calls, row_i,
                   row_vars, found_currencies, main_vars, install_vars>>

\* finally: driver.quit()
Finally ==
    /\ epc = "finally"
    /\ driver' = "quit"
    /\ quit_calls' = quit_calls + 1
    /\ epc' = "done"
    /\ UNCHANGED <<rate_vars, target_currencies, row_i, row_vars,
                   found_currencies, extracted_data, main_vars, install_vars>>

-----------------------------------------------------------------------------
(* save_to_csv, save_to_json, save_metadata *)

\* float(rate) succeeds for every item of the mapping
AllRatesConvert(data) ==
    \A k \in 1..Len(data) : pyfloat(data[k].rate).kind # "err"

\* what save_to_csv / save_to_json return: the path, or None when the
\* conversion or the file system raised (fs_ok = FALSE)
SaveResult(data, fs_ok) ==
    IF AllRatesConvert(data) /\ fs_ok THEN "path" ELSE "None"

\* a file that was not written
NoFile == [written |-> FALSE, records |-> <<>>]

\* the record save_to_csv / save_to_json build for one mapping entry;
\* rate_float is float(rate), the timestamp is one value per call
Record(entry) ==
    [currency |-> entry.currency,
     rate |-> entry.rate,
     rate_float |-> pyfloat(entry.rate),
     extraction_timestamp |-> "now",
     extraction_method |-> "selenium_simple"]

\* csv_data / json_data: one record per entry of data.items(), in order
Records(data) == [k \in 1..Len(data) |-> Record(data[k])]

\* the file after save_to_csv / save_to_json: the records are written
\* only when every float(rate) succeeded and the file operations did
FileAfterSave(old, data, fs_ok) ==
    IF AllRatesConvert(data) /\ fs_ok
    THEN [written |-> TRUE, records |-> Records(data)]
    ELSE old

\* the writes whose file operation has raised, after one more write
IoErrorsAfter(errors, name, data, fs_ok) ==
    IF AllRatesConvert(data) /\ ~fs_ok THEN errors \cup {name} ELSE errors

MainIdle ==
    /\ mpc = "start"
    /\ csv_saved = "unset" /\ json_saved = "unset"
    /\ historical_saved = "unset" /\ metadata_saved = "unset"
    /\ writes = <<>> /\ git_cmds = <<>>
    /\ git_out = <<>>
    /\ git_success = "unset"
    /\ csv_file = NoFile /\ json_file = NoFile /\ io_errors = {}

\* main: extracted_data = extract_exchange_rates(target_currencies)
CallExtract ==
    /\ mpc = "start" /\ epc = "idle"
    /\ epc' = "setup"
    /\ mpc' = "extracting"
    /\ UNCHANGED <<rate_vars, target_currencies, driver, quit_calls, row_i,
                   row_vars, found_currencies, extracted_data,
                   csv_saved, json_saved, historical_saved, metadata_saved,
                   writes, git_cmds, git_out, git_success, file_vars,
                   install_vars>>

\* main: `if extracted_data:` after extract_exchange_rates returned
ExtractReturned ==
    /\ mpc = "extracting" /\ epc = "done"
    /\ mpc' = CASE extracted_data.ret = "dict"   -> "save_csv"
                [] extracted_data.ret = "None"   -> "error_meta"
                [] OTHER                         -> "raised"
    /\ UNCHANGED <<rate_vars, extract_vars,
                   csv_saved, json_saved, historical_saved, metadata_saved,
                   writes, git_cmds, git_out, git_success, file_vars,
                   install_vars>>

\* main giving up at a latest-CSV write that fails
SaveLatestCsvStop ==
    /\ mpc = "save_csv"
    /\ \E fs_ok \in BOOLEAN :
        /\ csv_saved' = SaveResult(extracted_data.data, fs_ok)
        /\ csv_file' = FileAfterSave(csv_file, extracted_data.data, fs_ok)
        /\ io_errors' = IoErrorsAfter(io_errors, "latest_csv",
                                      extracted_data.data, fs_ok)
        /\ mpc' = IF csv_saved' = "None" THEN "done" ELSE "save_json"
    /\ writes' = Append(writes, "latest_csv")
    /\ UNCHANGED <<rate_vars, extract_vars, json_saved, historical_saved,
                   metadata_saved, git_cmds, git_out, git_success,
                   json_file, install_vars>>

\* csv_saved = save_to_csv(extracted_data, "latest_rates.csv")
SaveLatestCsv ==
    /\ mpc = "save_csv"
    /\ \E fs_ok \in BOOLEAN :
        /\ csv_saved' = SaveResult(extracted_data.data, fs_ok)
        /\ csv_file' = FileAfterSave(csv_file, extracted_data.data, fs_ok)
        /\ io_errors' = IoErrorsAfter(io_errors, "latest_csv",
                                      extracted_data.data, fs_ok)
    /\ writes' = Append(writes, "latest_csv")
    /\ mpc' = "save_json"
    /\ UNCHANGED <<rate_vars, extract_vars, json_saved, historical_saved,
                   metadata_saved, git_cmds, git_out, git_success,
                   json_file, install_vars>>

\* json_saved = save_to_json(extracted_data, "latest_rates.json")
SaveLatestJson ==
    /\ mpc = "save_json"
    /\ \E fs_ok \in BOOLEAN :
        /\ json_saved' = SaveResult(extracted_data.data, fs_ok)
        /\ json_file' = FileAfterSave(json_file, extracted_data.data, fs_ok)
        /\ io_errors' = IoErrorsAfter(io_errors, "latest_json",
                                      extracted_data.data, fs_ok)
    /\ writes' = Append(writes, "latest_json")
    /\ mpc' = "save_hist"
    /\ UNCHANGED <<rate_vars, extract_vars, csv_saved, historical_saved,
                   metadata_saved, git_cmds, git_out, git_success,
                   csv_file, install_vars>>

\* historical_saved = save_to_csv(extracted_data, f"{today}_rates.csv")
SaveHistoricalCsv ==
    /\ mpc = "save_hist"
    /\ \E fs_ok \in BOOLEAN :
        /\ historical_saved' = SaveResult(extracted_data.data, fs_ok)
        /\ io_errors' = IoErrorsAfter(io_errors, "historical_csv",
                                      extracted_data.data, fs_ok)
    /\ writes' = Append(writes, "historical_csv")
    /\ mpc' = "save_meta"
    /\ UNCHANGED <<rate_vars, extract_vars, csv_saved, json_saved,
                   metadata_saved, git_cmds, git_out, git_success,
                   csv_file, json_file, install_vars>>

\* the publish gate asking for every artifact
PublishGateAll ==
    csv_saved = "path" /\ json_saved = "path" /\ historical_saved = "path"

\* `if csv_saved and json_saved:`
PublishGate == csv_saved = "path" /\ json_saved = "path"

\* metadata_saved = save_metadata(extracted_data, extraction_stats), then
\* `if csv_saved and json_saved:` decides whether commit_and_push is called
SaveMetadata ==
    /\ mpc = "save_meta"
    /\ \E fs_ok \in BOOLEAN :
            metadata_saved' = IF fs_ok THEN "path" ELSE "None"
    /\ writes' = Append(writes, "metadata")
    /\ mpc' = IF PublishGate THEN "git_status" ELSE "done"
    /\ UNCHANGED <<rate_vars, extract_vars, csv_saved, json_saved,
                   historical_saved, git_cmds, git_out, git_success,
                   file_vars, install_vars>>

\* the else branch of main: save_metadata(None, extraction_stats)
SaveErrorMetadata ==
    /\ mpc = "error_meta"
    /\ writes' = Append(writes, "error_metadata")
    /\ mpc' = "done"
    /\ UNCHANGED <<rate_vars, extract_vars, csv_saved, json_saved,
                   historical_saved, metadata_saved, git_cmds, git_out,
                   git_success, file_vars, install_vars>>

-----------------------------------------------------------------------------
(* commit_and_push; the output of git is a sequence of words *)

NothingToCommit == <<"nothing", "to", "commit">>

CommitOutputs ==
    { <<"On", "branch", "main", "nothing", "to", "commit", ",",
        "working", "tree", "clean">>,
      <<"On", "branch", "main", "nothing", "added", "to", "commit", "but",
        "untracked", "files", "present">>,
      <<>> }

\* the outcome of one git command: exit status and standard output
GitResult(rc, out) == [returncode |-> rc, stdout |-> out]

\* subprocess.run(['git', 'status']) exited non-zero, or raised because
\* git cannot be run (the outer `except Exception`): return False
GitStatusFails ==
    /\ mpc = "git_status"
    /\ git_cmds' = Append(git_cmds, "status")
    /\ \E rc \in {128, 127} : git_out' = Append(git_out, GitResult(rc, <<>>))
    /\ git_success' = "False"
    /\ mpc' = "done"
    /\ UNCHANGED <<rate_vars, extract_vars, csv_saved, json_saved,
                   historical_saved, metadata_saved, writes, file_vars,
                   install_vars>>

GitStatusOk ==
    /\ mpc = "git_status"
    /\ git_cmds' = Append(git_cmds, "status")
    /\ git_out' = Append(git_out, GitResult(0, <<>>))
    /\ mpc' = "git_add"
    /\ UNCHANGED <<rate_vars, extract_vars, csv_saved, json_saved,
                   historical_saved, metadata_saved, writes, git_success,
                   file_vars, install_vars>>

\* git add going on to the commit whatever its exit status
GitAddGoesOn ==
    /\ mpc = "git_add"
    /\ git_cmds' = Append(git_cmds, "add")
    /\ \E rc \in {0, 128} : git_out' = Append(git_out, GitResult(rc, <<>>))
    /\ git_success' = git_success /\ mpc' = "git_commit"
    /\ UNCHANGED <<rate_vars, extract_vars, csv_saved, json_saved,
                   historical_saved, metadata_saved, writes, file_vars,
                   install_vars>>

\* subprocess.run(['git', 'add', 'data/'])
GitAdd ==
    /\ mpc = "git_add"
    /\ git_cmds' = Append(git_cmds, "add")
    /\ \E rc \in {0, 128} :
        /\ git_out' = Append(git_out, GitResult(rc, <<>>))
        /\ IF rc # 0
           THEN git_success' = "False" /\ mpc' = "done"
           ELSE git_success' = git_success /\ mpc' = "git_commit"
    /\ UNCHANGED <<rate_vars, extract_vars, csv_saved, json_saved,
                   historical_saved, metadata_saved, writes, file_vars,
                   install_vars>>

\* what follows a commit when every non-zero exit is a failure
AfterCommitStrict(res) ==
    IF res.returncode # 0 THEN "False" ELSE "push"

\* what follows subprocess.run(['git', 'commit', ...]): return True,
\* return False, or go on to the push
AfterCommit(res) ==
    IF res.returncode # 0
    THEN IF Contains(res.stdout, NothingToCommit) THEN "True" ELSE "False"
    ELSE "push"

GitCommit ==
    /\ mpc = "git_commit"
    /\ git_cmds' = Append(git_cmds, "commit")
    /\ \E rc \in {0, 1, 128} : \E out \in CommitOutputs :
        /\ rc = 0 => out = <<>>
        /\ rc = 128 => out = <<>>
        /\ rc = 1 => out # <<>>
        /\ git_out' = Append(git_out, GitResult(rc, out))
        /\ LET next == AfterCommit(GitResult(rc, out))
           IN  IF next = "push"
               THEN git_success' = git_success /\ mpc' = "git_push"
               ELSE git_success' = next /\ mpc' = "done"
    /\ UNCHANGED <<rate_vars, extract_vars, csv_saved, json_saved,
                   historical_saved, metadata_saved, writes, file_vars,
                   install_vars>>

\* subprocess.run(['git', 'push'])
GitPush ==
    /\ mpc = "git_push"
    /\ git_cmds' = Append(git_cmds, "push")
    /\ \E rc \in {0, 1} :
        /\ git_out' = Append(git_out, GitResult(rc, <<>>))
        /\ git_success' = IF rc = 0 THEN "True" ELSE "False"
    /\ mpc' = "done"
    /\ UNCHANGED <<rate_vars, extract_vars, csv_saved, json_saved,
                   historical_saved, metadata_saved, writes, file_vars,
                   install_vars>>

-----------------------------------------------------------------------------
(* ChromeDriverInstaller: platform and version resolution *)

Systems == {"linux", "darwin", "windows", "freebsd"}

M_x86_64  == <<"x","8","6","_","6","4">>
M_amd64   == <<"a","m","d","6","4">>
M_i386    == <<"i","3","8","6">>
M_i686    == <<"i","6","8","6">>
M_arm64   == <<"a","r","m","6","4">>
M_aarch64 == <<"a","a","r","c","h","6","4">>
M_armv7l  == <<"a","r","m","v","7","l">>

\* the machine names the installer is run with
Machines == {M_x86_64, M_aarch64, M_armv7l}

PLATFORM_MAPPING ==
    [linux   |-> (M_x86_64 :> "linux64" @@ M_amd64 :> "linux64" @@
                  M_i386 :> "linux32" @@ M_i686 :> "linux32"),
     darwin  |-> (M_x86_64 :> "mac-x64" @@ M_arm64 :> "mac-arm64"),
     windows |-> (M_amd64 :> "win64" @@ M_x86_64 :> "win64" @@
                  M_i386 :> "win32")]

\* get_platform_identifier with no fallback for unlisted machines
get_platform_identifier_table_only(sys, mach) ==
    IF sys \notin DOMAIN PLATFORM_MAPPING
    THEN "None"
    ELSE IF mach \in DOMAIN PLATFORM_MAPPING[sys]
         THEN PLATFORM_MAPPING[sys][mach]
         ELSE "None"

\* get_platform_identifier: "None" stands for Python's None
get_platform_identifier(sys, mach) ==
    IF sys \notin DOMAIN PLATFORM_MAPPING
    THEN "None"
    ELSE LET platform_variants == PLATFORM_MAPPING[sys]
         IN  IF mach \in DOMAIN platform_variants
             THEN platform_variants[mach]
             ELSE CASE sys = "linux" ->
                        IF Contains(mach, <<"6","4">>)
                        THEN "linux64" ELSE "linux32"
                    [] sys = "darwin" ->
                        IF Contains(mach, <<"a","r","m">>)
                        THEN "mac-arm64" ELSE "mac-x64"
                    [] sys = "windows" ->
                        IF Contains(mach, <<"6","4">>)
                        THEN "win64" ELSE "win32"
                    [] OTHER -> "None"

\* chrome_commands.get(self.system, []): whether get_chrome_version has a
\* browser command to run
HasChromeCommands(sys) == sys \in {"linux", "darwin", "windows"}

Ver_12_0  == <<"1","2",".","0">>
Ver_119_0 == <<"1","1","9",".","0">>
Ver_120_0 == <<"1","2","0",".","0">>
Ver_120_1 == <<"1","2","0",".","1">>
Ver_120_2 == <<"1","2","0",".","2">>
Ver_121_0 == <<"1","2","1",".","0">>
Ver_114_0 == <<"1","1","4",".","0">>

\* what get_chrome_version can return: None or a version text
ChromeVersions == {None, Ver_12_0, Ver_120_1, Ver_121_0}

\* one item of downloads.chromedriver
Download(p) == [platform |-> p, url |-> <<"cft", p>>]

\* the downloads.chromedriver lists of the manifest entries
DownloadLists == {<<>>, <<Download("mac-arm64"), Download("linux64")>>}

\* the entries of the manifest's versions list: three versions with
\* driver downloads, one without
ManifestEntries ==
    {[version |-> v, downloads |-> d] :
        v \in {Ver_119_0, Ver_120_0, Ver_120_2}, d \in DownloadLists \ {<<>>}}
    \cup {[version |-> Ver_120_2, downloads |-> <<>>]}

RECURSIVE SeqsUpTo(_, _)
SeqsUpTo(S, n) ==
    IF n = 0 THEN {<<>>}
    ELSE LET shorter == SeqsUpTo(S, n - 1)
         IN  shorter \cup
             {Append(q, x) : q \in {r \in shorter : Len(r) = n - 1}, x \in S}

\* data.get('versions', []) of a manifest that was fetched and parsed
Manifests == SeqsUpTo(ManifestEntries, MaxManifest)

\* chrome_version.split('.')[0]
RECURSIVE SplitDotFirst(_)
SplitDotFirst(s) ==
    IF s = <<>> \/ Head(s) = "." THEN <<>>
    ELSE <<Head(s)>> \o SplitDotFirst(Tail(s))

\* str.startswith
StartsWith(s, prefix) ==
    /\ Len(prefix) <= Len(s)
    /\ SubSeq(s, 1, Len(prefix)) = prefix

NoTarget == [target_version |-> None, download_url |-> None]

\* the inner loop over chromedriver_downloads: the first download of the
\* platform, if any
RECURSIVE FirstForPlatform(_, _, _)
FirstForPlatform(version, downloads, pid) ==
    IF downloads = <<>> THEN NoTarget
    ELSE IF Head(downloads).platform = pid
         THEN [target_version |-> version,
               download_url |-> Head(downloads).url]
         ELSE FirstForPlatform(version, Tail(downloads), pid)

\* the loop over reversed(versions), entries k, k-1, .. 1
RECURSIVE ScanReversed(_, _, _, _)
ScanReversed(versions, k, chrome_major, pid) ==
    IF k = 0 THEN NoTarget
    ELSE LET hit == IF StartsWith(versions[k].version, chrome_major)
                    THEN FirstForPlatform(versions[k].version,
                                          versions[k].downloads, pid)
                    ELSE NoTarget
         IN  IF hit.target_version # None THEN hit
             ELSE ScanReversed(versions, k - 1, chrome_major, pid)

\* target_version, download_url after the manifest was read
ManifestTarget(versions, chrome, pid) ==
    LET matched ==
            IF chrome # None
            THEN ScanReversed(versions, Len(versions),
                              SplitDotFirst(chrome), pid)
            ELSE NoTarget
    IN  IF matched.target_version = None /\ versions # <<>>
        THEN FirstForPlatform(versions[Len(versions)].version,
                              versions[Len(versions)].downloads, pid)
        ELSE matched

\* what the legacy request can answer: a failure or a version text
LegacyAnswers ==
    {[ok |-> FALSE, version |-> None], [ok |-> TRUE, version |-> Ver_114_0]}

\* what the manifest request can answer: a failure (connection, HTTP
\* status, JSON) or a versions list
ManifestAnswers ==
    {[ok |-> FALSE, versions |-> <<>>]}
    \cup {[ok |-> TRUE, versions |-> m] : m \in Manifests}

Unsupported == "ValueError: Unsupported platform"

\* get_compatible_chromedriver_version asking the manifest before it
\* looks at the platform identifier
get_compatible_chromedriver_version_late(sys, mach, chrome, answer, legacy) ==
    LET pid == get_platform_identifier(sys, mach)
        target == IF answer.ok
                  THEN ManifestTarget(answer.versions, chrome, pid)
                  ELSE NoTarget
    IN  IF pid = "None"
        THEN [raised |-> "ValueError", version |-> None, url |-> None,
              calls |-> <<"GET manifest", Unsupported>>]
        ELSE IF target.target_version # None /\ target.download_url # None
        THEN [raised |-> "no", version |-> target.target_version,
              url |-> target.download_url, calls |-> <<"GET manifest">>]
        ELSE IF legacy.ok
        THEN [raised |-> "no", version |-> legacy.version,
              url |-> <<"legacy", pid>>,
              calls |-> <<"GET manifest", "GET legacy">>]
        ELSE [raised |-> "RuntimeError", version |-> None, url |-> None,
              calls |-> <<"GET manifest", "GET legacy">>]

\* get_compatible_chromedriver_version:
\*   raised is "no", "ValueError" or "RuntimeError"; calls are the
\*   requests made and the error raised, in order
get_compatible_chromedriver_version(sys, mach, chrome, answer, legacy) ==
    LET pid == get_platform_identifier(sys, mach)
        target == IF answer.ok
                  THEN ManifestTarget(answer.versions, chrome, pid)
                  ELSE NoTarget
    IN  IF pid = "None"
        THEN [raised |-> "ValueError", version |-> None, url |-> None,
              calls |-> <<Unsupported>>]
        ELSE IF target.target_version # None /\ target.download_url # None
        THEN [raised |-> "no", version |-> target.target_version,
              url |-> target.download_url, calls |-> <<"GET manifest">>]
        ELSE IF legacy.ok
        THEN [raised |-> "no", version |-> legacy.version,
              url |-> <<"legacy", pid>>,
              calls |-> <<"GET manifest", "GET legacy">>]
        ELSE [raised |-> "RuntimeError", version |-> None, url |-> None,
              calls |-> <<"GET manifest", "GET legacy">>]

-----------------------------------------------------------------------------
(* ChromeDriverInstaller.install *)

\* package_commands.get(self.system, [])
PackageCommands(sys) ==
    CASE sys = "linux"  -> <<"apt-get update", "apt-get install">>
      [] sys = "darwin" -> <<"brew install">>
      [] OTHER          -> <<>>

\* outcome of one subprocess.run(cmd, check=True):
\*   "ok", "failed" (CalledProcessError or FileNotFoundError, both caught),
\*   "oserror" (any other exception, not caught by the method)
CmdOutcomes == {"ok", "failed", "oserror"}

\* outcome of `chromedriver --version`: exit 0, non-zero exit, not found
VersionOutcomes == {"rc0", "rc1", "notfound"}

\* index of the first command that does not succeed, 0 if all succeed
FirstBad(outs) ==
    IF \E k \in 1..Len(outs) : outs[k] # "ok"
    THEN CHOOSE k \in 1..Len(outs) :
            outs[k] # "ok" /\ \A j \in 1..(k - 1) : outs[j] = "ok"
    ELSE 0

\* install_via_package_manager: "True", "False" or "raised"
install_via_package_manager(outs, ver) ==
    LET bad == FirstBad(outs)
    IN  IF bad # 0
        THEN IF outs[bad] = "failed" THEN "False" ELSE "raised"
        ELSE IF ver = "rc0" THEN "True" ELSE "False"

\* the commands install_via_package_manager runs: up to the first one that
\* does not succeed, then `chromedriver --version` if all succeeded
PackageManagerCalls(cmds, outs) ==
    LET bad == FirstBad(outs)
    IN  IF bad # 0 THEN SubSeq(cmds, 1, bad)
        ELSE Append(cmds, "chromedriver --version")

\* what _install_manual runs: the browser's --version command where the
\* system has one, the requests of get_compatible_chromedriver_version,
\* then each later stage only when the one before it did not raise
ManualCalls(sys, res, download_ok) ==
    (IF HasChromeCommands(sys) THEN <<"chrome --version">> ELSE <<>>)
    \o res.calls
    \o (IF res.raised = "no" THEN <<"GET archive">> ELSE <<>>)
    \o (IF res.raised = "no" /\ download_ok
        THEN <<"install_to_system">> ELSE <<>>)

\* _install_manual: every exception of the three stages is caught
install_manual(res, download_ok, to_system) ==
    IF res.raised = "no" /\ download_ok /\ to_system
    THEN "True" ELSE "False"

\* verify_installation, by what happens inside it:
\*   "import_error"  selenium cannot be imported
\*   "no_driver"     both webdriver.Chrome attempts raise
\*   "get_raises"    a session is launched, driver.get or driver.title raises
\*   "quit_raises"   a session is launched, driver.quit raises
\*   "ok"            a session is launched, the page gives a title, quit
VerifyOutcomes ==
    {"ok", "import_error", "no_driver", "get_raises", "quit_raises"}

\* True only when a session was launched and the test page gave a title;
\* every exception is caught and gives False
verify_installation(outcome) == outcome = "ok"

\* sessions that webdriver.Chrome launched during one verify_installation
SessionsLaunched(outcome) ==
    IF outcome \in {"ok", "get_raises", "quit_raises"} THEN 1 ELSE 0

\* driver.quit() calls made during one verify_installation
QuitCalls(outcome) ==
    IF outcome \in {"ok", "quit_raises"} THEN 1 ELSE 0

MethodNames == <<"Package Manager", "Manual Download">>

NoManifest == [ok |-> FALSE, versions |-> <<>>]
NotResolved == [raised |-> "unset", version |-> None, url |-> None]

InstallIdle ==
    /\ ipc = "idle" /\ method_i = 0 /\ method_ret = "unset"
    /\ attempts = <<>> /\ calls = <<>> /\ install_ret = "unset"
    /\ chrome_version = None /\ platform_id = "unset"
    /\ manifest = NoManifest /\ resolved = NotResolved
    /\ launched = 0 /\ quits = 0 /\ exit_code = "unset"

\* ChromeDriverInstaller(verbose=True) constructed, install() called
ConstructInstaller ==
    /\ ipc = "main"
    /\ ipc' = "deps"
    /\ UNCHANGED <<rate_vars, extract_vars, main_vars, method_i, method_ret,
                   attempts, calls, install_ret, platform_vars, manual_vars,
                   session_vars, exit_code>>

\* the constructor raises (tempfile.mkdtemp): `except Exception` of main
ConstructRaises ==
    /\ ipc = "main"
    /\ exit_code' = "1"
    /\ ipc' = "exited"
    /\ UNCHANGED <<rate_vars, extract_vars, main_vars, method_i, method_ret,
                   attempts, calls, install_ret, platform_vars, manual_vars,
                   session_vars>>

\* KeyboardInterrupt while install runs: `except KeyboardInterrupt` of main
InstallerInterrupted ==
    /\ ipc \in {"deps", "method", "returned"}
    /\ exit_code' = "1"
    /\ ipc' = "exited"
    /\ UNCHANGED <<rate_vars, extract_vars, main_vars, method_i, method_ret,
                   attempts, calls, install_ret, platform_vars, manual_vars,
                   session_vars>>

\* install_python_dependencies returned (True or False, install goes on)
InstallDeps ==
    /\ ipc = "deps"
    /\ method_i' = 1
    /\ calls' = Append(calls, "pip install")
    /\ ipc' = "method"
    /\ UNCHANGED <<rate_vars, extract_vars, main_vars, method_ret,
                   attempts, install_ret, platform_vars, manual_vars,
                   session_vars, exit_code>>

\* install_python_dependencies raised something other than
\* CalledProcessError: install itself raises
InstallDepsRaises ==
    /\ ipc = "deps"
    /\ install_ret' = "raised"
    /\ calls' = Append(calls, "pip install")
    /\ ipc' = "done"
    /\ UNCHANGED <<rate_vars, extract_vars, main_vars, method_i,
                   method_ret, attempts, platform_vars, manual_vars,
                   session_vars, exit_code>>

\* method_func() for ("Package Manager", self.install_via_package_manager)
RunPackageManager ==
    /\ ipc = "method" /\ method_i = 1
    /\ \E outs \in [1..Len(PackageCommands(system)) -> CmdOutcomes] :
       \E ver \in VersionOutcomes :
        /\ method_ret' = install_via_package_manager(outs, ver)
        /\ calls' = calls \o PackageManagerCalls(PackageCommands(system), outs)
    /\ ipc' = "returned"
    /\ UNCHANGED <<rate_vars, extract_vars, main_vars, method_i,
                   attempts, install_ret, platform_vars, manual_vars,
                   session_vars, exit_code>>

\* method_func() for ("Manual Download", self._install_manual)
RunManual ==
    /\ ipc = "method" /\ method_i = 2
    /\ \E chrome \in (IF HasChromeCommands(system)
                      THEN ChromeVersions ELSE {None}) :
       \E answer \in ManifestAnswers : \E legacy \in LegacyAnswers :
       \E d \in BOOLEAN : \E t \in BOOLEAN :
       \E res \in {get_compatible_chromedriver_version(
                        system, machine, chrome, answer, legacy)} :
        /\ chrome_version' = chrome
        /\ platform_id' = get_platform_identifier(system, machine)
        /\ manifest' = IF res.raised = "ValueError"
                       THEN manifest ELSE answer
        /\ resolved' = [raised |-> res.raised, version |-> res.version,
                        url |-> res.url]
        /\ method_ret' = install_manual(res, d, t)
        /\ calls' = calls \o ManualCalls(system, res, d)
    /\ ipc' = "returned"
    /\ UNCHANGED <<rate_vars, extract_vars, main_vars, method_i,
                   attempts, install_ret, platform_vars, session_vars,
                   exit_code>>

Attempt(ret, verified) ==
    [name |-> MethodNames[method_i], ret |-> ret, verified |-> verified]

VerifyCall == <<"verify_installation">>

\* where the loop of install goes after the current method
NextMethod ==
    IF method_i < Len(MethodNames)
    THEN /\ method_i' = method_i + 1
         /\ ipc' = "method"
         /\ install_ret' = install_ret
    ELSE /\ method_i' = method_i
         /\ ipc' = "done"
         /\ install_ret' = "False"

\* `if method_func():` false, or the exception handler's `continue`
MethodFailed ==
    /\ ipc = "returned" /\ method_ret \in {"False", "raised"}
    /\ attempts' = Append(attempts, Attempt(method_ret, "n/a"))
    /\ NextMethod
    /\ UNCHANGED <<rate_vars, extract_vars, main_vars, method_ret,
                   calls, platform_vars, manual_vars, session_vars,
                   exit_code>>

\* install trusting the method without looking at the verification
AfterVerifyTrusting(verified) ==
    /\ method_i' = method_i
    /\ ipc' = "done"
    /\ install_ret' = "True"

\* `if self.verify_installation(): return True`, else on to the next method
AfterVerify(verified) ==
    IF verified
    THEN /\ method_i' = method_i
         /\ ipc' = "done"
         /\ install_ret' = "True"
    ELSE NextMethod

\* `if method_func():` true, then verify_installation
MethodSucceeded ==
    /\ ipc = "returned" /\ method_ret = "True"
    /\ \E outcome \in VerifyOutcomes :
        LET verified == verify_installation(outcome)
        IN  /\ attempts' = Append(attempts,
                    Attempt("True", IF verified THEN "True" ELSE "False"))
            /\ launched' = launched + SessionsLaunched(outcome)
            /\ quits' = quits + QuitCalls(outcome)
            /\ AfterVerify(verified)
    /\ calls' = calls \o VerifyCall
    /\ UNCHANGED <<rate_vars, extract_vars, main_vars, method_ret,
                   platform_vars, manual_vars, exit_code>>

\* main returning 0 whatever install returned
ExitCodeAlwaysZero(ret) == "0"

\* the value main returns once install has returned or raised: `return 1`
\* in the else branch and in `except Exception`, `return 0` at the end
ExitCode(ret) == IF ret = "True" THEN "0" ELSE "1"

\* install() returned or raised: main returns
MainReturns ==
    /\ ipc = "done"
    /\ exit_code' = ExitCode(install_ret)
    /\ ipc' = "exited"
    /\ UNCHANGED <<rate_vars, extract_vars, main_vars, method_i, method_ret,
                   attempts, calls, install_ret, platform_vars, manual_vars,
                   session_vars>>

-----------------------------------------------------------------------------
(* Specifications *)

\* is_valid_rate applied to every text of the bounded alphabet
InitRate ==
    /\ text \in Texts(MaxLen)
    /\ rate_result = "none"
    /\ target_currencies = <<F_Euro>>
    /\ ExtractIdle /\ MainIdle /\ InstallIdle
    /\ system = "linux" /\ machine = M_x86_64

NextRate == CallIsValidRate

SpecRate == InitRate /\ [][NextRate]_vars

\* the extractor script: main, extract_exchange_rates, the writes, git
Init ==
    /\ RateIdle
    /\ target_currencies \in TargetLists
    /\ ExtractIdle /\ MainIdle /\ InstallIdle
    /\ system = "linux" /\ machine = M_x86_64

Next ==
    \/ CallExtract
    \/ SetupDriverOk
    \/ SetupDriverNone
    \/ PageLoaded
    \/ RaiseToExcept
    \/ Interrupt
    \/ TableFound
    \/ FetchRow
    \/ FetchRowRaises
    \/ ProcessRow
    \/ ReturnFound
    \/ Finally
    \/ ExtractReturned
    \/ SaveLatestCsv
    \/ SaveLatestJson
    \/ SaveHistoricalCsv
    \/ SaveMetadata
    \/ SaveErrorMetadata
    \/ GitStatusFails
    \/ GitStatusOk
    \/ GitAdd
    \/ GitCommit
    \/ GitPush

Spec == Init /\ [][Next]_vars

\* the installer script: ChromeDriverInstaller.install
InitInstall ==
    /\ RateIdle
    /\ target_currencies = <<F_Euro>>
    /\ ExtractIdle /\ MainIdle
    /\ system \in Systems /\ machine \in Machines
    /\ ipc = "main" /\ method_i = 0 /\ method_ret = "unset"
    /\ attempts = <<>> /\ calls = <<>> /\ install_ret = "unset"
    /\ chrome_version = None /\ platform_id = "unset"
    /\ manifest = NoManifest /\ resolved = NotResolved
    /\ launched = 0 /\ quits = 0 /\ exit_code = "unset"

NextInstall ==
    \/ ConstructInstaller
    \/ ConstructRaises
    \/ InstallerInterrupted
    \/ InstallDeps
    \/ InstallDepsRaises
    \/ RunPackageManager
    \/ RunManual
    \/ MethodFailed
    \/ MethodSucceeded
    \/ MainReturns

SpecInstall == InitInstall /\ [][NextInstall]_vars

-----------------------------------------------------------------------------
(* Properties of the row scan *)

\* some cell of the row contains some target fragment, case-insensitively
RowMatches(cells, targets) ==
    \E k \in 1..Len(cells) : \E n \in 1..Len(targets) :
        Contains(Lower(Strip(cells[k])), Lower(targets[n]))

\* some cell of the row passes is_valid_rate
RowHasValidRate(cells) ==
    \E k \in 1..Len(cells) : is_valid_rate(Strip(cells[k]))

\* a step that runs the loop body on the row that was read
ProcessStep == epc = "row" /\ epc' = "rows"

Keys(d) == {d[k].currency : k \in 1..Len(d)}

\* C1 (as stated): first-seen-wins, a later row never overwrites the rate
\* of an already-recorded currency.
C1_FirstSeenWins ==
    [][\A c \in Keys(found_currencies) :
          /\ c \in Keys(found_currencies')
          /\ Lookup(found_currencies', c) = Lookup(found_currencies, c)]_vars

\* C1 (amended): last-seen-wins.  A row of two or more cells that matches a
\* currency and holds a valid rate leaves that rate recorded under that
\* currency, recorded before or not, and touches no other entry; the
\* position of an already-recorded currency in the mapping is kept.
C1_LastSeenWins ==
    [][(ProcessStep /\ Len(row) >= 2
            /\ RowMatches(row, target_currencies) /\ RowHasValidRate(row))
       => /\ currency_found' \in Keys(found_currencies')
          /\ Lookup(found_currencies', currency_found') = rate_found'
          /\ is_valid_rate(rate_found')
          /\ \A c \in Keys(found_currencies) \ {currency_found'} :
                /\ c \in Keys(found_currencies')
                /\ Lookup(found_currencies', c) = Lookup(found_currencies, c)
          /\ Keys(found_currencies') =
                Keys(found_currencies) \cup {currency_found'}
          /\ \A k \in 1..Len(found_currencies) :
                found_currencies'[k].currency = found_currencies[k].currency
      ]_vars

\* C1 witness: a second row matching an already-recorded currency has been
\* read, and it carries a valid rate different from the recorded one.
C1_Witness ==
    /\ epc = "row" /\ Len(row) >= 2
    /\ CurrencyFound(AllTexts(row), target_currencies) \in Keys(found_currencies)
    /\ RowHasValidRate(row)
    /\ Lookup(found_currencies,
              CurrencyFound(AllTexts(row), target_currencies))
         # RateFound(AllTexts(row))

\* the text chosen by scanning the targets in caller order and taking the
\* first fragment that matches any cell
FirstTargetChoice(cells, targets) ==
    LET n == CHOOSE n \in 1..Len(targets) :
                /\ RowMatches(cells, <<targets[n]>>)
                /\ \A j \in 1..(n - 1) : ~RowMatches(cells, <<targets[j]>>)
    IN  Strip(cells[CHOOSE k \in 1..Len(cells) :
                /\ RowMatches(<<cells[k]>>, <<targets[n]>>)
                /\ \A j \in 1..(k - 1) :
                        ~RowMatches(<<cells[j]>>, <<targets[n]>>)])

\* C2 (as stated): the order of target_currencies decides which cell's text
\* becomes the key of the row.
C2_TargetOrderDecides ==
    [][(ProcessStep /\ Len(row) >= 2 /\ RowMatches(row, target_currencies))
       => currency_found' = FirstTargetChoice(row, target_currencies)]_vars

\* C2 (amended): the order of the cells decides.  The key of the row is the
\* text of the first cell, in cell order, that contains any target
\* fragment, wherever that fragment stands in target_currencies.
C2_CellOrderDecides ==
    [][(ProcessStep /\ Len(row) >= 2 /\ RowMatches(row, target_currencies))
       => \E k \in 1..Len(row) :
            /\ currency_found' = Strip(row[k])
            /\ RowMatches(<<row[k]>>, target_currencies)
            /\ \A j \in 1..(k - 1) :
                    ~RowMatches(<<row[j]>>, target_currencies)]_vars

\* C2 witness: a row has been read whose first matching cell holds a later
\* target than another of its cells.
C2_Witness ==
    /\ epc = "row" /\ Len(row) >= 2
    /\ Len(target_currencies) = 2
    /\ \E k \in 1..Len(row) : \E j \in 1..(k - 1) :
        /\ RowMatches(<<row[k]>>, <<target_currencies[1]>>)
        /\ RowMatches(<<row[j]>>, <<target_currencies[2]>>)
        /\ ~RowMatches(<<row[j]>>, <<target_currencies[1]>>)
        /\ \A i \in 1..(j - 1) : ~RowMatches(<<row[i]>>, target_currencies)

\* C3 (as stated): a currency matched by a row without a valid rate is not
\* retried, no later row adds an entry for it.
C3_NotRetried ==
    [][\A c \in dropped :
          c \notin Keys(found_currencies) => c \notin Keys(found_currencies')
      ]_vars

\* C3 (amended): a row that matches a currency while none of its cells
\* passes is_valid_rate leaves the mapping as it was, and the currency is
\* retried: a later row matching it with a valid rate records it.
C3_DroppedRowRetried ==
    [][/\ (ProcessStep /\ RowMatches(row, target_currencies)
                /\ ~RowHasValidRate(row))
            => found_currencies' = found_currencies
       /\ (ProcessStep /\ Len(row) >= 2 /\ RowHasValidRate(row)
                /\ CurrencyFound(AllTexts(row), target_currencies) \in dropped)
            => /\ currency_found' \in dropped
               /\ currency_found' \in Keys(found_currencies')
               /\ Lookup(found_currencies', currency_found') = rate_found'
      ]_vars

\* C3 witness: a currency that an earlier row matched without a valid rate
\* is recorded in the mapping.
C3_Witness ==
    /\ epc = "rows"
    /\ \E c \in dropped : c \in Keys(found_currencies)
    /\ currency_found \in dropped /\ rate_found # None

\* C4: a row in which no cell contains a target fragment leaves the mapping
\* unchanged, whatever numeric cells it holds.
C4_NoMatchNoEntry ==
    [][(ProcessStep /\ ~RowMatches(row, target_currencies))
       => found_currencies' = found_currencies]_vars

\* C4 witness: a row of several cells without any target fragment but with
\* a valid rate has been read.
C4_Witness ==
    /\ epc = "row" /\ Len(row) >= 2
    /\ ~RowMatches(row, target_currencies)
    /\ RowHasValidRate(row)

-----------------------------------------------------------------------------
(* Properties of is_valid_rate *)

\* text with every space and comma removed
WithoutSeparators(t) == SelectSeq(t, LAMBDA c : c \notin {" ", ","})

\* 0.0000001 <= m * 10^e <= 100.0 in integers, for 0 <= m < 10^MantDigits
InClosedRange(m, e) ==
    /\ m >= 1
    /\ e <= RateHigh
    /\ (e >= 0 => m * Pow10(e) <= Pow10(RateHigh))
    /\ (e < 0 /\ RateHigh - e <= MantDigits => m <= Pow10(RateHigh - e))
    /\ (e < 0 - RateLow =>
            /\ 0 - e - RateLow <= MantDigits
            /\ m >= Pow10(0 - e - RateLow))

\* C5: is_valid_rate(text) is True exactly when text without its spaces and
\* commas parses as a number r with 0.0000001 <= r <= 100.0, both bounds
\* included; it is False for every other text, and it always returns.
C5_ValidRateExact ==
    rate_result # "none" =>
        /\ rate_result \in {"True", "False"}
        /\ rate_result = "True" <=>
            \E f \in {pyfloat(WithoutSeparators(text))} :
                /\ f.kind = "num"
                /\ ~f.neg
                /\ InClosedRange(f.mant, f.exp)

\* C5 witness: a text with a separator that is valid at the lower bound.
C5_Witness ==
    /\ rate_result = "True"
    /\ text = <<"1", "e", "-", "7">>

-----------------------------------------------------------------------------
(* Properties of the browser session *)

\* C6: once a driver has been obtained, driver.quit is called exactly once
\* before extract_exchange_rates returns, on every exit path, and never
\* more than once.
C6_QuitExactlyOnce ==
    /\ quit_calls <= 1
    /\ (driver = "none") => quit_calls = 0
    /\ (epc = "done" /\ driver # "none") =>
            (quit_calls = 1 /\ driver = "quit")

\* C6 witness: the function has returned None after the page or the table
\* failed, and the browser has been terminated.
C6_Witness ==
    /\ epc = "done" /\ extracted_data.ret = "None"
    /\ found_currencies = <<>> /\ row_i = 0
    /\ driver = "quit" /\ quit_calls = 1

-----------------------------------------------------------------------------
(* Properties of main *)

AllWrites == <<"latest_csv", "latest_json", "historical_csv", "metadata">>

\* C7: after a successful extraction main attempts the four writes in
\* order whichever of them failed; a failing write gives None and the
\* later writes are still attempted.
C7_AllWritesAttempted ==
    /\ (extracted_data.ret = "dict"
            /\ mpc \in {"git_status", "git_add", "git_commit", "git_push",
                        "done"})
        => /\ writes = AllWrites
           /\ csv_saved \in {"path", "None"}
           /\ json_saved \in {"path", "None"}
           /\ historical_saved \in {"path", "None"}
           /\ metadata_saved \in {"path", "None"}
    /\ \A k \in 1..Len(writes) :
            extracted_data.ret = "dict" => writes[k] = AllWrites[k]

\* C7 witness: main is over, the first write failed and all four were made.
C7_Witness ==
    /\ mpc = "done" /\ csv_saved = "None"
    /\ metadata_saved = "path"
    /\ Len(writes) = 4

\* C8: commit_and_push is invoked if and only if the extraction succeeded
\* and the latest CSV and the latest JSON were both written; the
\* historical CSV and the metadata do not matter.
C8_PublishGate ==
    mpc = "done" =>
        (git_cmds # <<>> <=>
            /\ extracted_data.ret = "dict"
            /\ csv_saved = "path"
            /\ json_saved = "path")

\* C8 witness: publishing ran although the historical CSV and the metadata
\* were not written.
C8_Witness ==
    /\ mpc = "done" /\ git_cmds # <<>>
    /\ historical_saved = "None" /\ metadata_saved = "None"

\* C9: a commit that exits non-zero saying "nothing to commit" makes
\* commit_and_push return True without a push; any other non-zero exit of
\* the commit makes it return False.
C9_NothingToCommit ==
    (Len(git_cmds) >= 3 /\ git_out[3].returncode # 0) =>
        /\ git_cmds = <<"status", "add", "commit">>
        /\ mpc = "done"
        /\ git_success =
            IF \E k \in 1..Len(git_out[3].stdout) - 2 :
                    /\ git_out[3].stdout[k] = "nothing"
                    /\ git_out[3].stdout[k + 1] = "to"
                    /\ git_out[3].stdout[k + 2] = "commit"
            THEN "True" ELSE "False"

\* C9 witness: commit_and_push returned True after three commands.
C9_Witness ==
    /\ mpc = "done" /\ git_success = "True"
    /\ git_cmds = <<"status", "add", "commit">>
    /\ git_out[3].returncode = 1

-----------------------------------------------------------------------------
(* Properties of the installer *)

Verified(a) == a.ret = "True" /\ a.verified = "True"

\* C10: install tries the package manager first and the manual download
\* second; the manual download is attempted exactly when the package
\* manager returned failure, raised, or failed verification; install
\* returns True exactly when a method succeeded and was verified right
\* after, stopping at the first such method; it returns False when both
\* are exhausted.
C10_FallbackChain ==
    /\ Len(attempts) <= 2
    /\ \A k \in 1..Len(attempts) :
            /\ attempts[k].name = MethodNames[k]
            /\ k < Len(attempts) => ~Verified(attempts[k])
    /\ (ipc = "method" /\ method_i = 2) => Len(attempts) = 1
    /\ (ipc = "done" /\ install_ret # "raised") =>
            /\ Len(attempts) >= 1
            /\ Len(attempts) = 2 <=> ~Verified(attempts[1])
            /\ install_ret = "True" <=> Verified(attempts[Len(attempts)])
            /\ install_ret = "False" <=> ~Verified(attempts[Len(attempts)])
            /\ install_ret = "False" => Len(attempts) = 2

\* C10 witness: install returned True through the manual download after
\* the package manager raised.
C10_Witness ==
    /\ ipc = "done" /\ install_ret = "True"
    /\ Len(attempts) = 2
    /\ attempts[1].ret = "raised"
    /\ Verified(attempts[2])

Listed(sys, mach) ==
    /\ sys \in DOMAIN PLATFORM_MAPPING
    /\ mach \in DOMAIN PLATFORM_MAPPING[sys]

Has64(mach) == Contains(mach, <<"6","4">>)
HasArm(mach) == Contains(mach, <<"a","r","m">>)

\* C11 as stated: once get_compatible_chromedriver_version has run, the
\* platform identifier is a tag exactly when the (OS, architecture) pair
\* is listed in PLATFORM_MAPPING, and the unsupported-platform error is
\* raised exactly when the pair is not listed.
C11_TagOnlyForListedPairs ==
    platform_id # "unset" =>
        /\ platform_id # "None" <=> Listed(system, machine)
        /\ resolved.raised = "ValueError" <=> ~Listed(system, machine)

\* C11 amended: the identifier is None, and the unsupported-platform
\* error is raised, exactly when the OS is not a key of PLATFORM_MAPPING;
\* a listed pair gets the tag of the table; an unlisted architecture of a
\* listed OS still gets a tag of that OS from the fallback, chosen by
\* whether "64" (linux, windows) or "arm" (darwin) occurs in its name.
C11_TagForEveryListedSystem ==
    platform_id # "unset" =>
        /\ platform_id = "None" <=> system \notin DOMAIN PLATFORM_MAPPING
        /\ resolved.raised = "ValueError" <=> platform_id = "None"
        /\ resolved.raised = "ValueError" =>
                calls[Len(calls)] = Unsupported
        /\ Listed(system, machine) =>
                platform_id = PLATFORM_MAPPING[system][machine]
        /\ (system = "linux" /\ ~Listed(system, machine)) =>
                platform_id = IF Has64(machine) THEN "linux64" ELSE "linux32"
        /\ (system = "darwin" /\ ~Listed(system, machine)) =>
                platform_id = IF HasArm(machine)
                              THEN "mac-arm64" ELSE "mac-x64"
        /\ (system = "windows" /\ ~Listed(system, machine)) =>
                platform_id = IF Has64(machine) THEN "win64" ELSE "win32"

\* C11 witness: linux on aarch64 is not listed and resolves to linux64
\* with a version found.
C11_Witness ==
    /\ system = "linux" /\ machine = M_aarch64
    /\ platform_id = "linux64"
    /\ resolved.raised = "no"

NetworkCalls ==
    {"pip install", "apt-get update", "apt-get install", "brew install",
     "GET manifest", "GET legacy", "GET archive"}

DriverRequests == {"GET manifest", "GET legacy", "GET archive"}

PackageManagerCommands ==
    {"apt-get update", "apt-get install", "brew install"}

\* C12 as stated: in a run of install on an unsupported platform no
\* network call (dependency download, package-manager command, manifest
\* request, legacy request, archive download) comes before the report of
\* the platform-identification failure.
C12_FailureBeforeAnyNetworkCall ==
    \A k \in 1..Len(calls) :
        calls[k] = Unsupported =>
            \A j \in 1..(k - 1) : calls[j] \notin NetworkCalls

\* C12 amended: on a platform get_platform_identifier rejects, a run of
\* install makes no manifest request, legacy request or archive download
\* and runs no package-manager command, before or after the failure is
\* raised; the dependency download (pip) is the first call of every run
\* and so comes before the failure, and the failure is the last call of
\* the manual method.
C12_NoDriverRequestOnUnsupported ==
    /\ get_platform_identifier(system, machine) = "None" =>
            \A j \in 1..Len(calls) :
                calls[j] \notin DriverRequests \cup PackageManagerCommands
    /\ \A k \in 1..Len(calls) :
            calls[k] = Unsupported =>
                /\ k = Len(calls)
                /\ k > 1 /\ calls[1] = "pip install"
                /\ get_platform_identifier(system, machine) = "None"

\* C12 witness: the failure was raised in a run that had already
\* downloaded the dependencies.
C12_Witness ==
    /\ Len(calls) >= 2
    /\ calls[1] = "pip install"
    /\ calls[Len(calls)] = Unsupported
    /\ ipc = "done" /\ install_ret = "False"

\* whether the version's first dot-separated field is the given major
SameMajor(version, major) == SplitDotFirst(version) = major

\* the latest entry of the given major version that has a download for
\* the platform
RECURSIVE LatestOfMajor(_, _, _, _)
LatestOfMajor(versions, k, chrome_major, pid) ==
    IF k = 0 THEN NoTarget
    ELSE LET hit == IF SameMajor(versions[k].version, chrome_major)
                    THEN FirstForPlatform(versions[k].version,
                                          versions[k].downloads, pid)
                    ELSE NoTarget
         IN  IF hit.target_version # None THEN hit
             ELSE LatestOfMajor(versions, k - 1, chrome_major, pid)

\* the resolution rule of the claim: the latest entry of the browser's
\* major version, else the last entry of the manifest
MajorTarget(versions, chrome, pid) ==
    LET matched ==
            IF chrome # None
            THEN LatestOfMajor(versions, Len(versions),
                               SplitDotFirst(chrome), pid)
            ELSE NoTarget
    IN  IF matched.target_version = None /\ versions # <<>>
        THEN FirstForPlatform(versions[Len(versions)].version,
                              versions[Len(versions)].downloads, pid)
        ELSE matched

\* C13 as stated: once a version was resolved on a supported platform,
\* with the manifest reachable it is the latest manifest entry whose major
\* version equals the browser's and that has a download for the platform
\* tag, the manifest's last entry when no browser version was detected or
\* no such entry exists; the legacy endpoint is asked exactly when the
\* manifest path gave no (version, URL) pair.
C13_LatestEntryOfSameMajor ==
    (resolved.raised \in {"no", "RuntimeError"}) =>
        LET want == IF manifest.ok
                    THEN MajorTarget(manifest.versions, chrome_version,
                                     platform_id)
                    ELSE NoTarget
        IN  /\ want.target_version # None =>
                    /\ resolved.version = want.target_version
                    /\ resolved.url = want.download_url
            /\ want.target_version = None <=>
                    \E k \in 1..Len(calls) : calls[k] = "GET legacy"

\* C14 as stated: whenever verify_installation has returned, every
\* browser session it launched has been ended by driver.quit().
C14_EverySessionQuit == quits = launched

\* C15: the installer's main returns 0 exactly when install() returned
\* True, and 1 in every other case: install() returned False, install()
\* raised, the constructor raised, or the run was interrupted.
C15_ExitCode ==
    /\ ipc = "exited" <=> exit_code # "unset"
    /\ ipc = "exited" =>
            /\ exit_code \in {"0", "1"}
            /\ exit_code = "0" <=> install_ret = "True"

\* C15 witness: install() returned True and main returned 0.
C15_Witness ==
    /\ ipc = "exited" /\ exit_code = "0" /\ install_ret = "True"

-----------------------------------------------------------------------------
(* Properties of the written files and of the git step *)

\* the latest CSV and JSON writes have both been made
LatestSavesDone == mpc \in {"save_hist", "save_meta", "git_status",
                           "git_add", "git_commit", "git_push", "done"}
                   /\ extracted_data.ret = "dict"

\* what the claim expects a file to hold for a mapping
ExpectedFile(data) == [written |-> TRUE, records |-> Records(data)]

\* C16 as stated: for every extracted mapping, once save_to_csv and
\* save_to_json have run without a file-system error, each file holds
\* exactly one record per mapping entry, in mapping order, with the
\* currency, the rate text unchanged, its numeric value as rate_float, the
\* timestamp and the method "selenium_simple".
C16_OneRecordPerEntry ==
    LatestSavesDone =>
        /\ "latest_csv" \notin io_errors =>
                csv_file = ExpectedFile(extracted_data.data)
        /\ "latest_json" \notin io_errors =>
                json_file = ExpectedFile(extracted_data.data)

GitOrder == <<"status", "add", "commit", "push">>

\* the git commands run so far are the first ones of the fixed order, and
\* each was run only after the one before it exited with status 0
GitInOrder ==
    /\ Len(git_cmds) <= Len(GitOrder)
    /\ Len(git_out) = Len(git_cmds)
    /\ \A k \in 1..Len(git_cmds) : git_cmds[k] = GitOrder[k]
    /\ \A k \in 1..(Len(git_cmds) - 1) : git_out[k].returncode = 0

LastGitFailed ==
    /\ git_cmds # <<>>
    /\ git_out[Len(git_out)].returncode # 0

\* C17 as stated: the commands run in the order status, add, commit, push,
\* each only after the previous one succeeded, and the first command that
\* exits non-zero ends commit_and_push with False, no later one being run.
C17_FirstFailureReturnsFalse ==
    /\ GitInOrder
    /\ LastGitFailed => (mpc = "done" /\ git_success = "False")

\* C17 amended: the commands run in the order status, add, commit, push,
\* each only after the previous one exited with status 0; the first
\* command that exits non-zero is the last one run and ends
\* commit_and_push, with False except for a commit whose output contains
\* "nothing to commit", which ends it with True; a failed push after a
\* successful commit gives False and four successes give True.
C17_FirstFailureEndsTheStep ==
    /\ GitInOrder
    /\ LastGitFailed =>
            /\ mpc = "done"
            /\ git_success =
                    IF /\ git_cmds[Len(git_cmds)] = "commit"
                       /\ Contains(git_out[Len(git_out)].stdout,
                                   NothingToCommit)
                    THEN "True" ELSE "False"
    /\ (mpc = "done" /\ git_cmds # <<>> /\ ~LastGitFailed) =>
            /\ git_cmds = GitOrder
            /\ git_success = "True"
    /\ (git_cmds # <<>> /\ mpc # "done") => git_success = "unset"

\* C17 witness: the push failed after a successful commit.
C17_Witness ==
    /\ mpc = "done" /\ git_success = "False"
    /\ git_cmds = GitOrder
    /\ git_out[3].returncode = 0 /\ git_out[4].returncode # 0

\* C18 as stated: every rate text recorded in the mapping, which
\* is_valid_rate accepted with spaces and commas removed, is converted by
\* float() as save_to_csv and save_to_json apply it, to the text as is.
C18_RecordedRatesConvert ==
    \A k \in 1..Len(found_currencies) :
        /\ is_valid_rate(found_currencies[k].rate)
        /\ pyfloat(found_currencies[k].rate).kind # "err"

====
